---------------------------- MODULE Spec2Model ----------------------------
(***************************************************************************)
(* Model of sequence-mcp: the SequenceClient (src/sequence_mcp/client.py), *)
(* the pydantic response models (src/sequence_mcp/models.py) and the MCP   *)
(* tool dispatcher call_tool (src/sequence_mcp/server.py).                 *)
(*                                                                         *)
(* Python values are tagged records: None, S(frags) a str made of the      *)
(* fragments frags (so that f-strings are concatenations and "contains"    *)
(* is decidable), N(n), B(b), D(d) a dict (a function on its keys),        *)
(* L(l) a list.  A coroutine runs atomically between two awaits, so every  *)
(* action is one such segment of a task.                                   *)
(***************************************************************************)
EXTENDS Integers, Sequences, FiniteSets, TLC

VARIABLES
    shared,   \* the SequenceClient object the direct callers share
    own,      \* own[t]: the SequenceClient that task t's call_tool constructed
    conns,    \* conns[c]: state of the httpx.AsyncClient numbered c
    task      \* task[t]: where task t is suspended and what it holds; once its
              \* call is over, what went in, what came out, what it sent and logged

vars == <<shared, own, conns, task>>

-----------------------------------------------------------------------------
(* Python values *)

None == [t |-> "none"]
S(frags) == [t |-> "str", s |-> frags]
N(n) == [t |-> "num", n |-> n]
B(b) == [t |-> "bool", b |-> b]
D(d) == [t |-> "dict", d |-> d]
L(l) == [t |-> "list", l |-> l]

EmptyDict == D(<<>>)

\* Python truthiness: `if x` / `not x` / `x or y`
Truthy(v) ==
    CASE v.t = "none" -> FALSE
      [] v.t = "str"  -> v.s # <<>>
      [] v.t = "num"  -> v.n # 0
      [] v.t = "bool" -> v.b
      [] v.t = "dict" -> DOMAIN v.d # {}
      [] v.t = "list" -> v.l # <<>>
      [] OTHER        -> TRUE

\* dict.get(key, default)
DictGet(v, key, default) == IF key \in DOMAIN v.d THEN v.d[key] ELSE default

Digit(d) ==
    CASE d = 0 -> "0" [] d = 1 -> "1" [] d = 2 -> "2" [] d = 3 -> "3"
      [] d = 4 -> "4" [] d = 5 -> "5" [] d = 6 -> "6" [] d = 7 -> "7"
      [] d = 8 -> "8" [] d = 9 -> "9"

\* the decimal text of a natural number, as an f-string renders an int
RECURSIVE IntStr(_)
IntStr(n) == IF n < 10 THEN Digit(n) ELSE IntStr(n \div 10) \o Digit(n % 10)

\* the fragments str(v) / "%s" % v is made of; a list and a dict render their
\* items one after the other, a serialised document renders as the document
RECURSIVE StrFrags(_)
RECURSIVE ItemFrags(_)
StrFrags(v) ==
    CASE v.t = "none" -> <<"None">>
      [] v.t = "str"  -> v.s
      [] v.t = "num"  -> <<IntStr(v.n)>>
      [] v.t = "bool" -> IF v.b THEN <<"True">> ELSE <<"False">>
      [] v.t = "json" -> StrFrags(v.doc)
      [] v.t = "list" -> <<"[">> \o ItemFrags(v) \o <<"]">>
      [] v.t = "dict" -> <<"{">> \o ItemFrags(v) \o <<"}">>
ItemFrags(v) ==
    IF v.t = "list"
    THEN (IF v.l = <<>> THEN <<>>
          ELSE StrFrags(Head(v.l))
               \o (IF Len(v.l) = 1 THEN <<>> ELSE <<", ">> \o ItemFrags(L(Tail(v.l)))))
    ELSE (IF DOMAIN v.d = {} THEN <<>>
          ELSE LET k == CHOOSE x \in DOMAIN v.d : TRUE
                   rest == [y \in DOMAIN v.d \ {k} |-> v.d[y]]
               IN  <<k, ": ">> \o StrFrags(v.d[k])
                   \o (IF DOMAIN rest = {} THEN <<>> ELSE <<", ">> \o ItemFrags(D(rest))))

\* does the text made of frags hold the fragment a
Contains(frags, a) == \E i \in 1..Len(frags) : frags[i] = a

\* does the value v (a str, or a structure of them) hold the fragment a anywhere
Mentions(v, a) == Contains(StrFrags(v), a)

-----------------------------------------------------------------------------
(* httpx responses *)

NotJson == [t |-> "invalid"]

\* an httpx.Response: .status_code, .text, and what .json() parses the body to
Response(status, body) ==
    [kind |-> "response", status_code |-> status, text |-> body.text, json |-> body.json]

TransportFailure == [kind |-> "transport_error"]


\* bodies the API (or anything in its place) may answer with
Body(text, json) == [text |-> text, json |-> json]

ErrBodyFull ==
    Body(<<"{code,message}">>,
         D([code |-> S(<<"INVALID_ACCESS_TOKEN">>), message |-> S(<<"Unauthorized">>)]))
ErrBodyNoCode == Body(<<"{message}">>, D([message |-> S(<<"Unauthorized">>)]))
ErrBodyNoMessage == Body(<<"{code}">>, D([code |-> S(<<"INVALID_REQUEST">>)]))
ErrBodyEmpty == Body(<<"{}">>, EmptyDict)
TextBody == Body(<<"Internal Server Error">>, NotJson)
ArrayBody == Body(<<"[]">>, L(<<>>))
NullBody == Body(<<"null">>, None)

PodAccount ==
    D([id |-> S(<<"5579244">>), name |-> S(<<"Main Operating Pod">>),
       balance |-> D([amountInDollars |-> N(25342), error |-> None]),
       type |-> S(<<"Pod">>)])
FailedAccount ==
    D([id |-> S(<<"123">>), name |-> S(<<"Test Account">>),
       balance |-> D([amountInDollars |-> None, error |-> S(<<"Connection failed">>)]),
       type |-> S(<<"Account">>)])
BlankAccount ==
    D([id |-> S(<<"124">>), name |-> S(<<"Blank">>),
       balance |-> D([amountInDollars |-> None]),
       type |-> S(<<"Income Source">>)])
SavingsAccount ==
    D([id |-> S(<<"125">>), name |-> S(<<"Savings">>),
       balance |-> D([amountInDollars |-> N(1), error |-> None]),
       type |-> S(<<"Savings">>)])

AccountsJson(accounts, errors) ==
    D([message |-> S(<<"OK">>), requestId |-> S(<<"f1a2">>),
       data |-> D([accounts |-> L(accounts), errors |-> L(errors)])])

AccountsBody ==
    Body(<<"{accounts}">>,
         AccountsJson(<<PodAccount, FailedAccount>>, <<S(<<"enumeration failed">>)>>))
BlankBalanceBody == Body(<<"{blank}">>, AccountsJson(<<BlankAccount>>, <<>>))
BadTypeBody == Body(<<"{savings}">>, AccountsJson(<<SavingsAccount>>, <<>>))
TriggerBody ==
    Body(<<"{trigger}">>,
         D([code |-> S(<<"OK">>), message |-> S(<<"Rule has been triggered">>),
            data |-> D([requestId |-> S(<<"b28f">>)])]))

Bodies ==
    {ErrBodyFull, ErrBodyNoCode, ErrBodyNoMessage, ErrBodyEmpty, TextBody, ArrayBody,
     NullBody, AccountsBody, BlankBalanceBody, BadTypeBody, TriggerBody}

Statuses == {200, 201, 401, 500}

Responses == {Response(st, b) : st \in Statuses, b \in Bodies} \cup {TransportFailure}

-----------------------------------------------------------------------------
(* models.py *)

\* SequenceError(code, message, status_code)
SequenceError(code, message, status_code) ==
    [type |-> "SequenceError", code |-> code, message |-> message,
     status_code |-> status_code]

\* any other exception, with the text str(e) gives
OtherError(type, frags) == [type |-> type, str |-> frags]

IsStr(v) == v.t = "str"
IsDict(v) == v.t = "dict"
IsList(v) == v.t = "list"
Has(v, key) == key \in DOMAIN v.d

AccountTypes == {S(<<"Pod">>), S(<<"Income Source">>), S(<<"Account">>)}

\* AccountBalance: amountInDollars is required (float or None), error defaults to None
ValidBalance(v) ==
    /\ IsDict(v)
    /\ Has(v, "amountInDollars")
    /\ v.d["amountInDollars"].t \in {"num", "none"}
    /\ DictGet(v, "error", None).t \in {"str", "none"}

ParseBalance(v) ==
    [amount_in_dollars |-> v.d["amountInDollars"], error |-> DictGet(v, "error", None)]

\* Account: id, name, balance, type are all required
ValidAccount(v) ==
    /\ IsDict(v)
    /\ Has(v, "id") /\ IsStr(v.d["id"])
    /\ Has(v, "name") /\ IsStr(v.d["name"])
    /\ Has(v, "balance") /\ ValidBalance(v.d["balance"])
    /\ Has(v, "type") /\ v.d["type"] \in AccountTypes

ParseAccount(v) ==
    [id |-> v.d["id"], name |-> v.d["name"], balance |-> ParseBalance(v.d["balance"]),
     type |-> v.d["type"]]

\* AccountsResponseData: both lists default to empty
ValidAccountsData(v) ==
    /\ IsDict(v)
    /\ LET accounts == DictGet(v, "accounts", L(<<>>))
           errors == DictGet(v, "errors", L(<<>>))
       IN  /\ IsList(accounts)
           /\ \A i \in 1..Len(accounts.l) : ValidAccount(accounts.l[i])
           /\ IsList(errors)
           /\ \A i \in 1..Len(errors.l) : IsStr(errors.l[i])

\* AccountsResponse.model_validate(json) succeeds
ValidAccountsResponse(v) ==
    /\ IsDict(v)
    /\ Has(v, "message") /\ IsStr(v.d["message"])
    /\ Has(v, "requestId") /\ IsStr(v.d["requestId"])
    /\ Has(v, "data") /\ ValidAccountsData(v.d["data"])

ParseAccountsResponse(v) ==
    LET data == v.d["data"]
        accounts == DictGet(data, "accounts", L(<<>>)).l
    IN  [message |-> v.d["message"], request_id |-> v.d["requestId"],
         data |-> [accounts |-> [i \in 1..Len(accounts) |-> ParseAccount(accounts[i])],
                   errors |-> DictGet(data, "errors", L(<<>>)).l]]

\* TriggerRuleResponse.model_validate(json) succeeds
ValidTriggerRuleResponse(v) ==
    /\ IsDict(v)
    /\ Has(v, "code") /\ IsStr(v.d["code"])
    /\ Has(v, "message") /\ IsStr(v.d["message"])
    /\ Has(v, "data") /\ IsDict(v.d["data"])
    /\ Has(v.d["data"], "requestId") /\ IsStr(v.d["data"].d["requestId"])

ParseTriggerRuleResponse(v) ==
    [code |-> v.d["code"], message |-> v.d["message"],
     data |-> [request_id |-> v.d["data"].d["requestId"]]]

-----------------------------------------------------------------------------
(* client.py: what a call does with the response it was given *)

\* an outcome of a call: a value returned or an exception raised
Returned(value) == [raised |-> FALSE, value |-> value]
Raised(exc) == [raised |-> TRUE, exc |-> exc]

\* _handle_error_response that never reads the body
_handle_error_response_IgnoresBody(response) ==
    SequenceError(S(<<"HTTP_ERROR">>),
                  S(<<"HTTP ", IntStr(response.status_code), ": ">> \o response.text),
                  N(response.status_code))

\* _handle_error_response whose fallback message leaves the status code out
_handle_error_response_DropsStatus(response) ==
    IF response.json # NotJson /\ IsDict(response.json)
    THEN SequenceError(DictGet(response.json, "code", S(<<"UNKNOWN_ERROR">>)),
                       DictGet(response.json, "message", S(<<"Unknown error">>)),
                       N(response.status_code))
    ELSE SequenceError(S(<<"HTTP_ERROR">>), S(<<"HTTP error: ">> \o response.text),
                       N(response.status_code))

\* SequenceClient._handle_error_response: the SequenceError it raises.  The try
\* block fails when the body is not JSON (response.json()) or not a dict
\* (data.get); missing keys take the defaults of dict.get.
_handle_error_response(response) ==
    IF response.json # NotJson /\ IsDict(response.json)
    THEN SequenceError(DictGet(response.json, "code", S(<<"UNKNOWN_ERROR">>)),
                       DictGet(response.json, "message", S(<<"Unknown error">>)),
                       N(response.status_code))
    ELSE SequenceError(S(<<"HTTP_ERROR">>),
                       S(<<"HTTP ", IntStr(response.status_code), ": ">> \o response.text),
                       N(response.status_code))

\* does the call hand the response to _handle_error_response
IsErrorStatus(status_code) == status_code # 200

\* get_accounts that returns the accounts last first
GetAccountsResult_Reversed(response) ==
    IF response.kind = "transport_error"
    THEN Raised(OtherError("ConnectError", <<"All connection attempts failed">>))
    ELSE IF IsErrorStatus(response.status_code)
    THEN Raised(_handle_error_response(response))
    ELSE IF response.json = NotJson \/ ~ValidAccountsResponse(response.json)
    THEN Raised(OtherError("ValidationError",
                           <<"validation error for AccountsResponse">>))
    ELSE LET accounts == ParseAccountsResponse(response.json).data.accounts
         IN  Returned([i \in 1..Len(accounts) |-> accounts[Len(accounts) + 1 - i]])

\* get_accounts from the response on: lines 103-107
GetAccountsResult(response) ==
    IF response.kind = "transport_error"
    THEN Raised(OtherError("ConnectError", <<"All connection attempts failed">>))
    ELSE IF IsErrorStatus(response.status_code)
    THEN Raised(_handle_error_response(response))
    ELSE IF response.json = NotJson
    THEN Raised(OtherError("JSONDecodeError", <<"Expecting value">>))
    ELSE IF ~ValidAccountsResponse(response.json)
    THEN Raised(OtherError("ValidationError",
                           <<"validation error for AccountsResponse">>))
    ELSE Returned(ParseAccountsResponse(response.json).data.accounts)

\* trigger_rule from the response on: lines 145-148
TriggerRuleResult(response) ==
    IF response.kind = "transport_error"
    THEN Raised(OtherError("ConnectError", <<"All connection attempts failed">>))
    ELSE IF IsErrorStatus(response.status_code)
    THEN Raised(_handle_error_response(response))
    ELSE IF response.json = NotJson
    THEN Raised(OtherError("JSONDecodeError", <<"Expecting value">>))
    ELSE IF ~ValidTriggerRuleResponse(response.json)
    THEN Raised(OtherError("ValidationError",
                           <<"validation error for TriggerRuleResponse">>))
    ELSE Returned(ParseTriggerRuleResponse(response.json))

-----------------------------------------------------------------------------
(* client.py: the connection context and the requests *)

Tasks == {"t1", "t2"}

\* how many httpx.AsyncClient objects may exist (open, or closed and still held)
MaxConns == 3
ConnIds == 1..MaxConns

Conn(c) == [t |-> "conn", id |-> c]

\* SequenceClient.__init__
NewClient(access_token) == [access_token |-> access_token, _client |-> None]

HasFree(cs) == \E c \in ConnIds : cs[c] = "unused"
FreeConn(cs) == CHOOSE c \in ConnIds : cs[c] = "unused" /\ \A d \in 1..(c - 1) : cs[d] # "unused"

\* a closed httpx.AsyncClient that nothing refers to any more is collected
Referenced(c, sh, ow, tk) ==
    \/ sh._client = Conn(c)
    \/ \E t \in Tasks : ow[t] # None /\ ow[t]._client = Conn(c)
    \/ \E t \in Tasks : tk[t].pc \in {"post", "aclose"} /\ tk[t].conn = c
Sweep(cs, sh, ow, tk) ==
    [c \in ConnIds |-> IF cs[c] = "closed" /\ ~Referenced(c, sh, ow, tk)
                       THEN "unused" ELSE cs[c]]

\* __aenter__ that takes a connection that is open already, when there is one,
\* as a pool shared by the clients would
__aenter___SharedConnection(cl, cs) ==
    IF \E c \in ConnIds : cs[c] = "open"
    THEN [client |-> [cl EXCEPT !._client = Conn(CHOOSE c \in ConnIds : cs[c] = "open")],
          conns |-> cs]
    ELSE [client |-> [cl EXCEPT !._client = Conn(FreeConn(cs))],
          conns |-> [cs EXCEPT ![FreeConn(cs)] = "open"]]

\* SequenceClient.__aenter__: a new httpx.AsyncClient replaces self._client
__aenter__(cl, cs) ==
    LET c == FreeConn(cs)
    IN  [client |-> [cl EXCEPT !._client = Conn(c)], conns |-> [cs EXCEPT ![c] = "open"]]

\* _get_client that makes a new httpx.AsyncClient at every call, within the bound
_get_client_AlwaysNew(cl, cs) ==
    IF cl._client = None \/ HasFree(cs)
    THEN LET c == FreeConn(cs)
         IN  [client |-> [cl EXCEPT !._client = Conn(c)],
              conns |-> [cs EXCEPT ![c] = "open"], conn |-> c]
    ELSE [client |-> cl, conns |-> cs, conn |-> cl._client.id]

\* SequenceClient._get_client: creates the httpx.AsyncClient when there is none
_get_client(cl, cs) ==
    IF cl._client = None
    THEN LET c == FreeConn(cs)
         IN  [client |-> [cl EXCEPT !._client = Conn(c)],
              conns |-> [cs EXCEPT ![c] = "open"], conn |-> c]
    ELSE [client |-> cl, conns |-> cs, conn |-> cl._client.id]

\* f"Bearer {credential}"
Bearer(credential) == S(<<"Bearer ">> \o StrFrags(credential))

\* the request get_accounts posts: lines 94-101
AccountsRequest(cl) ==
    [method |-> "POST", path |-> <<"/accounts">>,
     headers |-> ("x-sequence-access-token" :> Bearer(cl.access_token))
                 @@ ("Content-Type" :> S(<<"application/json">>)),
     json |-> EmptyDict]

\* trigger_rule that tests `idempotency_key is not None`
TriggerHeaders_AnySuppliedKey(api_secret, idempotency_key) ==
    LET headers == ("x-sequence-signature" :> Bearer(api_secret))
                   @@ ("Content-Type" :> S(<<"application/json">>))
    IN  IF idempotency_key # None
        THEN headers @@ ("idempotency-key" :> idempotency_key)
        ELSE headers

\* the headers trigger_rule builds: lines 132-137
TriggerHeaders(api_secret, idempotency_key) ==
    LET headers == ("x-sequence-signature" :> Bearer(api_secret))
                   @@ ("Content-Type" :> S(<<"application/json">>))
    IN  IF Truthy(idempotency_key)
        THEN headers @@ ("idempotency-key" :> idempotency_key)
        ELSE headers

\* the request trigger_rule posts: lines 139-143
TriggerRequest(rule_id, api_secret, payload, idempotency_key) ==
    [method |-> "POST",
     path |-> <<"/remote-api/rules/">> \o StrFrags(rule_id) \o <<"/trigger">>,
     headers |-> TriggerHeaders(api_secret, idempotency_key),
     json |-> IF Truthy(payload) THEN payload ELSE EmptyDict]

\* a post that sends the request a second time
Post_Resends(g, req) ==
    [client |-> g.client, conns |-> g.conns, suspended |-> TRUE, conn |-> g.conn,
     reqs |-> <<req, req>>]

\* httpx.AsyncClient.post on connection g.conn: the request goes out and the caller
\* is suspended, unless the httpx client was closed, which raises at once
Post(g, req) ==
    IF g.conns[g.conn] = "open"
    THEN [client |-> g.client, conns |-> g.conns, suspended |-> TRUE, conn |-> g.conn,
          reqs |-> <<req>>]
    ELSE [client |-> g.client, conns |-> g.conns, suspended |-> FALSE, conn |-> g.conn,
          reqs |-> <<>>,
          out |-> Raised(OtherError("RuntimeError",
                     <<"Cannot send a request, as the client has been closed.">>))]

\* get_accounts without its credential check
LacksAccessToken_Unchecked(cl) == FALSE

\* does get_accounts stop at its credential check: line 90
LacksAccessToken(cl) == ~Truthy(cl.access_token)

\* get_accounts whose credential check raises the SequenceError of the API errors
StartGetAccounts_RaisesSequenceError(cl, cs) ==
    IF LacksAccessToken(cl)
    THEN [client |-> cl, conns |-> cs, suspended |-> FALSE, conn |-> 0, reqs |-> <<>>,
          out |-> Raised(SequenceError(S(<<"NO_ACCESS_TOKEN">>),
                     S(<<"Access token is required for fetching accounts">>), None))]
    ELSE Post(_get_client(cl, cs), AccountsRequest(cl))

\* get_accounts up to its await: lines 90-101
StartGetAccounts(cl, cs) ==
    IF LacksAccessToken(cl)
    THEN [client |-> cl, conns |-> cs, suspended |-> FALSE, conn |-> 0, reqs |-> <<>>,
          out |-> Raised(OtherError("ValueError",
                     <<"Access token is required for fetching accounts">>))]
    ELSE Post(_get_client(cl, cs), AccountsRequest(cl))

\* trigger_rule that also sends the client's access token, when it has one
StartTriggerRule_SendsToken(cl, cs, rule_id, api_secret, payload, idempotency_key) ==
    LET req == TriggerRequest(rule_id, api_secret, payload, idempotency_key)
    IN  Post(_get_client(cl, cs),
             IF Truthy(cl.access_token)
             THEN [req EXCEPT !.headers =
                       @ @@ ("x-sequence-access-token" :> Bearer(cl.access_token))]
             ELSE req)

\* trigger_rule up to its await: lines 130-143
StartTriggerRule(cl, cs, rule_id, api_secret, payload, idempotency_key) ==
    Post(_get_client(cl, cs), TriggerRequest(rule_id, api_secret, payload, idempotency_key))

\* may the segment run within the bound on connections
ConnAvailable(cl, cs) == cl._client = None => HasFree(cs)

-----------------------------------------------------------------------------
(* server.py: the dispatcher *)

LogRecord(level, frags) == [level |-> level, msg |-> frags]

\* json.dumps(doc): a text that is the serialisation of doc
JsonText(doc) == [t |-> "json", doc |-> doc]

TextContent(text) == [type |-> "text", text |-> text]

\* the first statement of call_tool: line 87
ToolCalledLog(name, arguments) ==
    LogRecord("INFO", <<"Tool called: ">> \o StrFrags(name)
                      \o <<" with arguments: ">> \o StrFrags(arguments))

\* handle_get_accounts that constructs its client whatever get_access_token gave
HasAccessToken_Unchecked(access_token) == TRUE

\* handle_get_accounts goes on to its client: `if not access_token` is false, line 132
HasAccessToken(access_token) == Truthy(access_token)

\* handle_get_accounts without a token: lines 132-143
TokenNotSetEnvelope ==
    TextContent(JsonText(D([error |-> B(TRUE),
        message |-> S(<<"SEQUENCE_ACCESS_TOKEN", " environment variable is not set">>)])))

\* handle_trigger_rule without a required argument: lines 172-186
RequiredEnvelope(field) ==
    TextContent(JsonText(D([error |-> B(TRUE), message |-> S(<<field, " is required">>)])))

\* handle_trigger_rule that checks rule_id only
MissingField_OnlyRuleId(arguments) ==
    IF ~Truthy(DictGet(arguments, "rule_id", None)) THEN "rule_id" ELSE "none"

\* the field handle_trigger_rule reports missing, if any: lines 172 and 180
MissingField(arguments) ==
    IF ~Truthy(DictGet(arguments, "rule_id", None)) THEN "rule_id"
    ELSE IF ~Truthy(DictGet(arguments, "api_secret", None)) THEN "api_secret"
    ELSE "none"

\* handle_get_accounts after the client call: lines 148-162
AccountsEnvelope(accounts) ==
    TextContent(JsonText(D(
        [accounts |-> L([i \in 1..Len(accounts) |->
                           D([id |-> accounts[i].id, name |-> accounts[i].name,
                              type |-> accounts[i].type,
                              balance_dollars |-> accounts[i].balance.amount_in_dollars,
                              balance_error |-> accounts[i].balance.error])]),
         total_accounts |-> N(Len(accounts))])))

\* handle_trigger_rule after the client call: lines 196-203
TriggerEnvelope(response) ==
    TextContent(JsonText(D(
        [success |-> B(TRUE), code |-> response.code, message |-> response.message,
         request_id |-> response.data.request_id])))

\* the except SequenceError branch that renders the message only
SequenceErrorEnvelope_MessageOnly(e) ==
    TextContent(JsonText(D([error |-> B(TRUE), message |-> e.message])))

\* call_tool's except SequenceError branch: lines 98-118
SequenceErrorEnvelope(e) ==
    TextContent(JsonText(D(
        [error |-> B(TRUE), code |-> e.code, message |-> e.message,
         status_code |-> e.status_code])))

\* the except Exception branch that fills the fields of the SequenceError envelope
UnexpectedEnvelope_WithCode(e) ==
    TextContent(JsonText(D([error |-> B(TRUE), code |-> S(<<"UNEXPECTED_ERROR">>),
                            message |-> S(e.str), status_code |-> None])))

\* call_tool's except Exception branch: lines 119-126
UnexpectedEnvelope(e) ==
    TextContent(JsonText(D([error |-> B(TRUE), message |-> S(e.str)])))

\* call_tool without its last except branch: any other exception leaves call_tool
CallToolResult_NoCatchAll(name, o) ==
    IF o.raised /\ o.exc.type # "SequenceError"
    THEN [out |-> o, logs |-> <<>>]
    ELSE [out |-> Returned(<<IF ~o.raised THEN TextContent(JsonText(EmptyDict))
                              ELSE SequenceErrorEnvelope(o.exc)>>),
          logs |-> <<>>]

\* call_tool from the handler's outcome on: what it returns and what it logs.
\* o is what the body of the handler's `async with` came to.
CallToolResult(name, o) ==
    IF ~o.raised
    THEN [out |-> Returned(<<IF name = S(<<"get_accounts">>)
                              THEN AccountsEnvelope(o.value)
                              ELSE TriggerEnvelope(o.value)>>),
          logs |-> <<LogRecord("DEBUG", <<"Tool ">> \o StrFrags(name)
                                         \o <<" completed successfully">>)>>]
    ELSE IF o.exc.type = "SequenceError"
    THEN [out |-> Returned(<<SequenceErrorEnvelope(o.exc)>>),
          logs |-> <<LogRecord("ERROR",
                       <<"SequenceError in ">> \o StrFrags(name)
                       \o <<": code=">> \o StrFrags(o.exc.code)
                       \o <<", message=">> \o StrFrags(o.exc.message)
                       \o <<", status=">> \o StrFrags(o.exc.status_code))>>]
    ELSE [out |-> Returned(<<UnexpectedEnvelope(o.exc)>>),
          logs |-> <<LogRecord("ERROR",
                       <<"Unexpected error in tool ">> \o StrFrags(name)
                       \o <<": ">> \o o.exc.str)>>]

\* call_tool that answers a name that is no tool with an error envelope
EarlyResult_UnknownAsErrorEnvelope(name, envelope) ==
    IF name \in {S(<<"get_accounts">>), S(<<"trigger_rule">>)}
    THEN [out |-> Returned(<<envelope>>), logs |-> <<>>]
    ELSE [out |-> Returned(<<TextContent(JsonText(D([error |-> B(TRUE),
                      message |-> S(<<"Unknown tool: ">> \o StrFrags(name))])))>>),
          logs |-> <<>>]

\* call_tool returning before any client call: the handler's own envelope
\* (lines 96-97), or the notice for a name that is no tool (lines 94-95)
EarlyResult(name, envelope) ==
    IF name \in {S(<<"get_accounts">>), S(<<"trigger_rule">>)}
    THEN [out |-> Returned(<<envelope>>),
          logs |-> <<LogRecord("DEBUG", <<"Tool ">> \o StrFrags(name)
                                         \o <<" completed successfully">>)>>]
    ELSE [out |-> Returned(<<TextContent(S(<<"Unknown tool: ">> \o StrFrags(name)))>>),
          logs |-> <<LogRecord("WARNING", <<"Unknown tool requested: ">> \o StrFrags(name))>>]

-----------------------------------------------------------------------------
(* the inputs *)

AccessToken == S(<<"tok_A">>)
RuleSecret == S(<<"sec_S">>)
RuleId == S(<<"ru_12345">>)
IdempotencyKey == S(<<"my-unique-key">>)
Payload == D([custom |-> S(<<"data">>)])

\* what SEQUENCE_ACCESS_TOKEN may hold when get_access_token reads it
EnvTokens == {None, S(<<>>), AccessToken}

ToolNames ==
    {S(<<"get_accounts">>), S(<<"trigger_rule">>), S(<<"unknown_tool">>),
     S(<<"Get_Accounts">>)}

\* the argument bags the host may pass to call_tool
ArgBags ==
    {EmptyDict,
     D([api_secret |-> RuleSecret]),
     D([rule_id |-> RuleId]),
     D([rule_id |-> S(<<>>), api_secret |-> RuleSecret]),
     D([rule_id |-> RuleId, api_secret |-> S(<<>>)]),
     D([rule_id |-> RuleId, api_secret |-> RuleSecret]),
     D([rule_id |-> RuleId, api_secret |-> RuleSecret, idempotency_key |-> IdempotencyKey]),
     D([rule_id |-> RuleId, api_secret |-> RuleSecret, idempotency_key |-> S(<<>>)]),
     D([rule_id |-> RuleId, api_secret |-> RuleSecret, payload |-> Payload])}

\* the arguments of direct calls of SequenceClient.trigger_rule
TriggerCalls ==
    {[rule_id |-> RuleId, api_secret |-> RuleSecret, payload |-> None,
      idempotency_key |-> None],
     [rule_id |-> RuleId, api_secret |-> RuleSecret, payload |-> Payload,
      idempotency_key |-> IdempotencyKey],
     [rule_id |-> RuleId, api_secret |-> RuleSecret, payload |-> EmptyDict,
      idempotency_key |-> S(<<>>)]}

-----------------------------------------------------------------------------
(* the state machine *)

Idle == [pc |-> "idle"]
NoResponse == [kind |-> "none"]
NoCall == [called |-> FALSE]

Init ==
    /\ shared \in {NewClient(None), NewClient(AccessToken)}
    /\ own = [t \in Tasks |-> None]
    /\ conns = [c \in ConnIds |-> "unused"]
    /\ task = [t \in Tasks |-> Idle]

\* the call of task t is over: what it was given, what came out, what it sent and logged
\* inner is what the call of the Client inside it came to, if there was one
Finish(t, entry, in, out, reqs, logs, response, inner) ==
    task' = [task EXCEPT ![t] =
                [pc |-> "done", entry |-> entry, in |-> in, out |-> out, reqs |-> reqs,
                 logs |-> logs, response |-> response, inner |-> inner]]

\* __aexit__ / close that never calls aclose()
ClosesConn_Never(cl, cs) == FALSE

\* SequenceClient.__aexit__ / close: does it suspend in aclose()
ClosesConn(cl, cs) == Truthy(cl._client) /\ cs[cl._client.id] = "open"

\* close / __aexit__ without the `if self._client` test: None has no aclose
CloseOutcome_Unguarded(cl) ==
    IF cl._client = None
    THEN Raised(OtherError("AttributeError",
                           <<"'NoneType' object has no attribute 'aclose'">>))
    ELSE Returned(None)

\* what close (lines 64-66) and __aexit__ (lines 49-51) come to: with no
\* self._client the body of the `if` is skipped, and both return None
CloseOutcome(cl) == Returned(None)

\* the end of the handler's `async with` in task t, whose body came to o:
\* __aexit__ closes the connection (suspending in aclose) and call_tool finishes
LeaveScope(t, rec, cl, cs, o) ==
    IF ClosesConn(cl, cs)
    THEN /\ own' = [own EXCEPT ![t] = cl]
         /\ task' = [task EXCEPT ![t] =
                [pc |-> "aclose", entry |-> "call_tool", in |-> rec.in, op |-> rec.op,
                 conn |-> cl._client.id, pending |-> o, reqs |-> rec.reqs,
                 logs |-> rec.logs, response |-> rec.response]]
         /\ conns' = Sweep([cs EXCEPT ![cl._client.id] = "closing"], shared', own', task')
    ELSE LET r == CallToolResult(rec.in.name, o)
         IN  /\ own' = [own EXCEPT ![t] = None]
             /\ Finish(t, "call_tool", rec.in, r.out, rec.reqs, rec.logs \o r.logs,
                       rec.response, o)
             /\ conns' = Sweep(cs, shared', own', task')

\* call_tool(name, arguments) up to its first await: lines 85-97, with
\* handle_get_accounts (lines 131-146) and handle_trigger_rule (lines 167-194);
\* token is what get_access_token reads
call_tool(t, name, arguments, token) ==
    /\ task[t].pc = "idle"
    /\ LET in == [name |-> name, arguments |-> arguments, token |-> token]
           log0 == <<ToolCalledLog(name, arguments)>>
           isGet == name = S(<<"get_accounts">>)
           isTrigger == name = S(<<"trigger_rule">>)
           early == IF isGet THEN TokenNotSetEnvelope
                    ELSE RequiredEnvelope(MissingField(arguments))
       IN  IF (isGet /\ HasAccessToken(token)) \/ (isTrigger /\ MissingField(arguments) = "none")
           THEN /\ HasFree(conns)
                /\ LET e == __aenter__(NewClient(IF isGet THEN token ELSE None), conns)
                       st == IF isGet
                             THEN StartGetAccounts(e.client, e.conns)
                             ELSE StartTriggerRule(e.client, e.conns,
                                      DictGet(arguments, "rule_id", None),
                                      DictGet(arguments, "api_secret", None),
                                      DictGet(arguments, "payload", EmptyDict),
                                      DictGet(arguments, "idempotency_key", None))
                       rec == [in |-> in, op |-> IF isGet THEN "get_accounts"
                                                 ELSE "trigger_rule",
                               reqs |-> st.reqs, logs |-> log0, response |-> NoResponse]
                   IN  /\ shared' = shared
                       /\ IF st.suspended
                          THEN /\ own' = [own EXCEPT ![t] = st.client]
                               /\ task' = [task EXCEPT ![t] =
                                      [pc |-> "post", entry |-> "call_tool", in |-> in,
                                       op |-> rec.op, conn |-> st.conn, reqs |-> st.reqs,
                                       logs |-> log0]]
                               /\ conns' = Sweep(st.conns, shared', own', task')
                          ELSE LeaveScope(t, rec, st.client, st.conns, st.out)
           ELSE LET r == EarlyResult(name, early)
                IN  /\ Finish(t, "call_tool", in, r.out, <<>>, log0 \o r.logs, NoResponse,
                              NoCall)
                    /\ UNCHANGED <<shared, own, conns>>

\* the awaited post of task t resumes with a response or a transport failure:
\* get_accounts lines 103-107, trigger_rule lines 145-148
respond(t, response) ==
    /\ task[t].pc = "post"
    /\ LET o == IF task[t].op = "get_accounts" THEN GetAccountsResult(response)
                ELSE TriggerRuleResult(response)
           rec == [in |-> task[t].in, op |-> task[t].op, reqs |-> task[t].reqs,
                   logs |-> task[t].logs, response |-> response]
       IN  IF task[t].entry = "call_tool"
           THEN /\ shared' = shared
                /\ LeaveScope(t, rec, own[t], conns, o)
           ELSE /\ UNCHANGED <<shared, own>>
                /\ Finish(t, task[t].entry, task[t].in, o, task[t].reqs, <<>>, response, o)
                /\ conns' = Sweep(conns, shared', own', task')

\* the awaited aclose() of task t resumes: self._client = None (lines 51 and 66),
\* and call_tool renders what the handler came to
aclose_done(t) ==
    /\ task[t].pc = "aclose"
    /\ IF task[t].entry = "call_tool"
       THEN LET r == CallToolResult(task[t].in.name, task[t].pending)
            IN  /\ own' = [own EXCEPT ![t] = None]
                /\ shared' = shared
                /\ Finish(t, "call_tool", task[t].in, r.out, task[t].reqs,
                          task[t].logs \o r.logs, task[t].response, task[t].pending)
       ELSE /\ shared' = [shared EXCEPT !._client = None]
            /\ own' = own
            /\ Finish(t, task[t].entry, task[t].in, CloseOutcome(shared), <<>>, <<>>,
                      NoResponse, NoCall)
    /\ conns' = Sweep([conns EXCEPT ![task[t].conn] = "closed"], shared', own', task')

\* a direct call of SequenceClient.get_accounts on the shared client: lines 90-101
get_accounts(t) ==
    /\ task[t].pc = "idle"
    /\ LacksAccessToken(shared) \/ ConnAvailable(shared, conns)
    /\ LET st == StartGetAccounts(shared, conns)
           in == [access_token |-> shared.access_token, before |-> shared._client]
       IN  /\ shared' = st.client
           /\ own' = own
           /\ IF st.suspended
              THEN task' = [task EXCEPT ![t] =
                          [pc |-> "post", entry |-> "get_accounts", in |-> in,
                           op |-> "get_accounts", conn |-> st.conn, reqs |-> st.reqs,
                           logs |-> <<>>]]
              ELSE Finish(t, "get_accounts", in, st.out, st.reqs, <<>>, NoResponse, st.out)
           /\ conns' = Sweep(st.conns, shared', own', task')

\* a direct call of SequenceClient.trigger_rule on the shared client: lines 130-143
trigger_rule(t, rule_id, api_secret, payload, idempotency_key) ==
    /\ task[t].pc = "idle"
    /\ ConnAvailable(shared, conns)
    /\ LET st == StartTriggerRule(shared, conns, rule_id, api_secret, payload,
                                  idempotency_key)
           in == [access_token |-> shared.access_token, rule_id |-> rule_id,
                  api_secret |-> api_secret, payload |-> payload,
                  idempotency_key |-> idempotency_key]
       IN  /\ shared' = st.client
           /\ own' = own
           /\ IF st.suspended
              THEN task' = [task EXCEPT ![t] =
                          [pc |-> "post", entry |-> "trigger_rule", in |-> in,
                           op |-> "trigger_rule", conn |-> st.conn, reqs |-> st.reqs,
                           logs |-> <<>>]]
              ELSE Finish(t, "trigger_rule", in, st.out, st.reqs, <<>>, NoResponse, st.out)
           /\ conns' = Sweep(st.conns, shared', own', task')

\* SequenceClient.close (lines 64-66) and __aexit__ (lines 49-51) on the shared
\* client, up to the await.  aclose() of an httpx client that is already closed
\* returns without suspending, and self._client = None follows at once.
close(t, entry) ==
    /\ task[t].pc = "idle"
    /\ own' = own
    /\ IF ClosesConn(shared, conns)
       THEN /\ shared' = shared
            /\ task' = [task EXCEPT ![t] =
                   [pc |-> "aclose", entry |-> entry, in |-> [before |-> shared._client],
                    conn |-> shared._client.id]]
            /\ conns' = Sweep([conns EXCEPT ![shared._client.id] = "closing"],
                              shared', own', task')
       ELSE /\ shared' = [shared EXCEPT !._client = None]
            /\ Finish(t, entry, [before |-> shared._client], CloseOutcome(shared), <<>>, <<>>,
                      NoResponse, NoCall)
            /\ conns' = Sweep(conns, shared', own', task')

\* `async with client:` entered on the shared client: lines 41-45
aenter(t) ==
    /\ task[t].pc = "idle"
    /\ HasFree(conns)
    /\ LET e == __aenter__(shared, conns)
       IN  /\ shared' = e.client
           /\ own' = own
           /\ Finish(t, "__aenter__", None, Returned(None), <<>>, <<>>, NoResponse, NoCall)
           /\ conns' = Sweep(e.conns, shared', own', task')

\* the caller of task t takes the outcome; the task may call again
collect(t) ==
    /\ task[t].pc = "done"
    /\ task' = [task EXCEPT ![t] = Idle]
    /\ UNCHANGED <<shared, own, conns>>

\* the callers that call one after the other
Callers == {"t1"}

Next ==
    \/ \E t \in Callers, name \in ToolNames, arguments \in ArgBags, token \in EnvTokens :
          call_tool(t, name, arguments, token)
    \/ \E t \in Callers, response \in Responses : respond(t, response)
    \/ \E t \in Callers : aclose_done(t)
    \/ \E t \in Callers : get_accounts(t)
    \/ \E t \in Callers, c \in TriggerCalls :
          trigger_rule(t, c.rule_id, c.api_secret, c.payload, c.idempotency_key)
    \/ \E t \in Callers, entry \in {"close", "__aexit__"} : close(t, entry)
    \/ \E t \in Callers : aenter(t)
    \/ \E t \in Callers : collect(t)

Spec == Init /\ [][Next]_vars

\* the responses and the calls of the tasks that run concurrently: one success
\* and one failure of each kind
ConcResponses ==
    {Response(200, AccountsBody), Response(200, TriggerBody), Response(401, ErrBodyFull),
     TransportFailure}
ConcToolCalls ==
    {[name |-> S(<<"get_accounts">>), arguments |-> EmptyDict],
     [name |-> S(<<"trigger_rule">>),
      arguments |-> D([rule_id |-> RuleId, api_secret |-> RuleSecret])]}

\* the tasks of one event loop interleave at their awaits: calls of call_tool,
\* and calls on the shared client, by both tasks
NextConc ==
    \/ \E t \in Tasks, c \in ConcToolCalls : call_tool(t, c.name, c.arguments, AccessToken)
    \/ \E t \in Tasks, response \in ConcResponses : respond(t, response)
    \/ \E t \in Tasks : aclose_done(t)
    \/ \E t \in Tasks : get_accounts(t)
    \/ \E t \in Tasks : trigger_rule(t, RuleId, RuleSecret, None, None)
    \/ \E t \in Tasks, entry \in {"close", "__aexit__"} : close(t, entry)
    \/ \E t \in Tasks : aenter(t)
    \/ \E t \in Tasks : collect(t)

SpecConc == Init /\ [][NextConc]_vars

-----------------------------------------------------------------------------
(* the calls the claims speak of *)

\* the calls of call_tool that are over
Invoked == {t \in Tasks : task[t].pc = "done" /\ task[t].entry = "call_tool"}

\* the calls of SequenceClient.get_accounts / trigger_rule that are over, called
\* directly or by a handler of call_tool
ClientCalls ==
    {t \in Tasks : /\ task[t].pc = "done"
                   /\ task[t].entry \in {"call_tool", "get_accounts", "trigger_rule"}
                   /\ task[t].inner # NoCall}

\* those of them that a response came back for
Answered == {t \in ClientCalls : task[t].response.kind = "response"}

\* the tasks that have sent or may have sent a request: every call of the
\* Client or of call_tool, over or not
Calling ==
    {t \in Tasks : /\ task[t].pc # "idle"
                   /\ task[t].entry \in {"call_tool", "get_accounts", "trigger_rule"}}

Is2xx(status_code) == status_code >= 200 /\ status_code < 300

\* the body is an object that holds both a code and a message
WellFormedError(response) ==
    /\ response.json # NotJson
    /\ response.json.t = "dict"
    /\ {"code", "message"} \subseteq DOMAIN response.json.d

-----------------------------------------------------------------------------
(* C1 *)

\* C1: whatever the name, the arguments and the outcome of the Client call
\* (a result, a SequenceError, any other exception), call_tool raises nothing
\* and returns one rendered text envelope.
C1_InvokeAlwaysReturnsEnvelope ==
    \A t \in Invoked :
        /\ ~task[t].out.raised
        /\ Len(task[t].out.value) = 1
        /\ task[t].out.value[1].type = "text"
        /\ task[t].out.value[1].text.t \in {"json", "str"}

\* a call_tool whose Client call failed with something other than a SequenceError
\* has returned its envelope
C1_Witness ==
    \E t \in Invoked :
        /\ task[t].inner # NoCall
        /\ task[t].inner.raised
        /\ task[t].inner.exc.type # "SequenceError"
        /\ ~task[t].out.raised

(* C2 *)

\* C2: every call of get_accounts or trigger_rule that fails raises a
\* SequenceError and nothing else.
C2_EveryClientFailureIsSequenceError ==
    \A t \in ClientCalls :
        task[t].inner.raised => task[t].inner.exc.type = "SequenceError"

(* C3 *)

\* C3: for a non-2xx response whose body is an object with code and message,
\* the call raises a SequenceError whose code and message are the body's and
\* whose status_code is the response's.
C3_WellFormedErrorVerbatim ==
    \A t \in Answered :
        LET r == task[t].response
        IN  (~Is2xx(r.status_code) /\ WellFormedError(r)) =>
                /\ task[t].inner.raised
                /\ task[t].inner.exc.type = "SequenceError"
                /\ task[t].inner.exc.code = r.json.d["code"]
                /\ task[t].inner.exc.message = r.json.d["message"]
                /\ task[t].inner.exc.status_code = [t |-> "num", n |-> r.status_code]

\* a call has raised the error of a 401 {code, message} response
C3_Witness ==
    \E t \in Answered :
        /\ task[t].response.status_code = 401
        /\ WellFormedError(task[t].response)
        /\ task[t].inner.raised
        /\ task[t].inner.exc.code.s = <<"INVALID_ACCESS_TOKEN">>
        /\ task[t].inner.exc.status_code.n = 401

(* C4 *)

\* the body is JSON and an object, so that dict.get reads it
IsJsonObject(response) == response.json # NotJson /\ response.json.t = "dict"

\* C4 as stated: for a non-2xx response whose body is not a {code, message}
\* object (not JSON, not an object, or an object without code or without
\* message) the SequenceError has code "HTTP_ERROR", a message holding the
\* status code, and the status code.
C4_UnparseableIsHttpError ==
    \A t \in Answered :
        LET r == task[t].response
        IN  (~Is2xx(r.status_code) /\ ~WellFormedError(r)) =>
                /\ task[t].inner.raised
                /\ task[t].inner.exc.type = "SequenceError"
                /\ task[t].inner.exc.code = [t |-> "str", s |-> <<"HTTP_ERROR">>]
                /\ task[t].inner.exc.message.t = "str"
                /\ Contains(task[t].inner.exc.message.s, IntStr(r.status_code))
                /\ task[t].inner.exc.status_code = [t |-> "num", n |-> r.status_code]

\* C4 as amended: for a non-2xx response whose body is not JSON or is not a JSON
\* object, the SequenceError has code "HTTP_ERROR", a message holding the status
\* code, and the status code; for a JSON object without code or without message
\* it has the status code, the fields the body holds, "UNKNOWN_ERROR" for a
\* missing code and "Unknown error" for a missing message.
C4_UnparseableNormalized ==
    \A t \in Answered :
        LET r == task[t].response
            e == task[t].inner.exc
        IN  (~Is2xx(r.status_code) /\ ~WellFormedError(r)) =>
                /\ task[t].inner.raised
                /\ e.type = "SequenceError"
                /\ e.status_code = [t |-> "num", n |-> r.status_code]
                /\ IF IsJsonObject(r)
                   THEN /\ e.code = IF "code" \in DOMAIN r.json.d THEN r.json.d["code"]
                                    ELSE [t |-> "str", s |-> <<"UNKNOWN_ERROR">>]
                        /\ e.message = IF "message" \in DOMAIN r.json.d
                                       THEN r.json.d["message"]
                                       ELSE [t |-> "str", s |-> <<"Unknown error">>]
                   ELSE /\ e.code = [t |-> "str", s |-> <<"HTTP_ERROR">>]
                        /\ e.message.t = "str"
                        /\ Contains(e.message.s, IntStr(r.status_code))

\* a call has raised HTTP_ERROR for a 500 response whose body is not JSON
C4_Witness ==
    \E t \in Answered :
        /\ task[t].response.status_code = 500
        /\ task[t].response.json = NotJson
        /\ task[t].inner.raised
        /\ task[t].inner.exc.code.s = <<"HTTP_ERROR">>
        /\ Contains(task[t].inner.exc.message.s, "500")

(* C5 *)

\* the calls of get_accounts on a client constructed without access token
NoTokenCalls ==
    {t \in Tasks : /\ task[t].pc # "idle"
                   /\ task[t].entry = "get_accounts"
                   /\ task[t].in.access_token = None}

\* C5: get_accounts on a client constructed without access token sends no
\* request, whatever the state of the client's connection: the call is over
\* at its credential check, failed, with nothing sent and no response awaited.
C5_NoTokenNoRequest ==
    \A t \in NoTokenCalls :
        /\ task[t].pc = "done"
        /\ task[t].reqs = <<>>
        /\ task[t].response = NoResponse
        /\ task[t].out.raised

\* get_accounts has failed without a token on a client whose connection was open
C5_Witness ==
    \E t \in NoTokenCalls :
        /\ task[t].pc = "done"
        /\ task[t].in.before # None
        /\ conns[task[t].in.before.id] = "open"
        /\ task[t].reqs = <<>>

(* C6 *)

\* C6 as stated: without access token get_accounts fails with a SequenceError
\* that has a code and no status code.
C6_NoTokenRaisesSequenceError ==
    \A t \in NoTokenCalls :
        task[t].pc = "done" =>
            /\ task[t].out.raised
            /\ task[t].out.exc.type = "SequenceError"
            /\ task[t].out.exc.status_code = None

\* C6 as amended: without access token get_accounts fails locally, before any
\* request, with a ValueError saying that the access token is required; the
\* error is not a SequenceError and has neither code nor status code.
C6_NoTokenRaisesValueError ==
    \A t \in NoTokenCalls :
        task[t].pc = "done" =>
            /\ task[t].out.raised
            /\ task[t].out.exc.type = "ValueError"
            /\ task[t].out.exc.str = <<"Access token is required for fetching accounts">>
            /\ DOMAIN task[t].out.exc = {"type", "str"}
            /\ task[t].reqs = <<>>

\* get_accounts has failed without a token on a client that never had a connection
C6_Witness ==
    \E t \in NoTokenCalls :
        /\ task[t].pc = "done"
        /\ task[t].in.before = None
        /\ task[t].out.raised
        /\ task[t].out.exc.type = "ValueError"

(* C7 *)

IsTriggerCall(t) ==
    \/ task[t].entry = "trigger_rule"
    \/ task[t].entry = "call_tool" /\ task[t].in.name = [t |-> "str", s |-> <<"trigger_rule">>]

\* the calls call_tool("trigger_rule", arguments), over or not
TriggerInvocations == {t \in Calling : task[t].entry = "call_tool" /\ IsTriggerCall(t)}

Absent(arguments, field) == field \notin DOMAIN arguments.d

\* the argument is in the bag and is a non-empty string
Supplied(arguments, field) ==
    /\ ~Absent(arguments, field)
    /\ arguments.d[field].t = "str"
    /\ arguments.d[field].s # <<>>

\* the error envelope of a finished call names the field
EnvelopeNames(t, field) ==
    LET text == task[t].out.value[1].text
    IN  /\ text.t = "json"
        /\ DOMAIN text.doc.d = {"error", "message"}
        /\ text.doc.d["error"] = [t |-> "bool", b |-> TRUE]
        /\ Contains(text.doc.d["message"].s, field)

\* C7: call_tool("trigger_rule", arguments) with rule_id or api_secret missing
\* from the arguments sends no request and makes no Client call, and returns
\* {error: true, message}: the message names rule_id when rule_id is missing, and
\* api_secret when api_secret is missing and rule_id was supplied.
C7_MissingArgumentNoRequest ==
    \A t \in TriggerInvocations :
        LET a == task[t].in.arguments
        IN  (Absent(a, "rule_id") \/ Absent(a, "api_secret")) =>
                /\ task[t].pc = "done"
                /\ task[t].reqs = <<>>
                /\ task[t].inner = NoCall
                /\ ~task[t].out.raised
                /\ Absent(a, "rule_id") => EnvelopeNames(t, "rule_id")
                /\ (Absent(a, "api_secret") /\ Supplied(a, "rule_id")) =>
                       EnvelopeNames(t, "api_secret")

\* a call with rule_id and without api_secret has returned the envelope that
\* names api_secret
C7_Witness ==
    \E t \in TriggerInvocations :
        /\ task[t].pc = "done"
        /\ Absent(task[t].in.arguments, "api_secret")
        /\ Supplied(task[t].in.arguments, "rule_id")
        /\ EnvelopeNames(t, "api_secret")
        /\ task[t].reqs = <<>>

(* C8 *)

\* the calls of trigger_rule, direct or through call_tool, over or not
TriggerCallers == {t \in Calling : IsTriggerCall(t)}

\* the idempotency_key the caller gave, None when it gave none
GivenKey(t) ==
    IF task[t].entry = "trigger_rule" THEN task[t].in.idempotency_key
    ELSE IF Absent(task[t].in.arguments, "idempotency_key") THEN None
    ELSE task[t].in.arguments.d["idempotency_key"]

HasKeyHeader(req) == "idempotency-key" \in DOMAIN req.headers

\* C8 as stated: a trigger request has the idempotency-key header, equal to the
\* key, if and only if a key was supplied, whatever string it is; the header is
\* never empty.
C8_KeyHeaderIffSupplied ==
    \A t \in TriggerCallers : \A i \in 1..Len(task[t].reqs) :
        LET req == task[t].reqs[i]
        IN  /\ HasKeyHeader(req) <=> GivenKey(t) # None
            /\ HasKeyHeader(req) =>
                   /\ req.headers["idempotency-key"] = GivenKey(t)
                   /\ req.headers["idempotency-key"] # [t |-> "str", s |-> <<>>]

\* C8 as amended: a trigger request has the idempotency-key header, equal to
\* the key, if and only if a non-empty key was supplied; with no key or with the
\* empty string as key the header is absent; the header is never empty.
C8_KeyHeaderIffNonEmptyKey ==
    \A t \in TriggerCallers : \A i \in 1..Len(task[t].reqs) :
        LET req == task[t].reqs[i]
        IN  /\ HasKeyHeader(req) <=>
                   (GivenKey(t) # None /\ GivenKey(t) # [t |-> "str", s |-> <<>>])
            /\ HasKeyHeader(req) =>
                   /\ req.headers["idempotency-key"] = GivenKey(t)
                   /\ req.headers["idempotency-key"] # [t |-> "str", s |-> <<>>]

\* call_tool has sent a trigger request with the key its arguments hold
C8_Witness ==
    \E t \in TriggerCallers :
        /\ task[t].entry = "call_tool"
        /\ Len(task[t].reqs) = 1
        /\ GivenKey(t) = [t |-> "str", s |-> <<"my-unique-key">>]
        /\ HasKeyHeader(task[t].reqs[1])
        /\ task[t].reqs[1].headers["idempotency-key"].s = <<"my-unique-key">>

(* C9 *)

\* the access token of the client that task t calls
ClientToken(t) ==
    IF task[t].entry = "call_tool" THEN task[t].in.token ELSE task[t].in.access_token

\* the api_secret and the rule_id a trigger call was given
GivenSecret(t) ==
    IF task[t].entry = "trigger_rule" THEN task[t].in.api_secret
    ELSE task[t].in.arguments.d["api_secret"]
GivenRuleId(t) ==
    IF task[t].entry = "trigger_rule" THEN task[t].in.rule_id
    ELSE task[t].in.arguments.d["rule_id"]

\* the value holds the text of the credential
Leaks(v, credential) ==
    /\ credential.t = "str"
    /\ \E i \in 1..Len(credential.s) : Mentions(v, credential.s[i])

\* only the header named carries the credential; no other header, the path and
\* the body do not
OnlyIn(req, header, credential) ==
    /\ header \in DOMAIN req.headers
    /\ req.headers[header] = [t |-> "str", s |-> <<"Bearer ">> \o credential.s]
    /\ \A h \in DOMAIN req.headers \ {header} : ~Leaks(req.headers[h], credential)
    /\ ~Leaks([t |-> "str", s |-> req.path], credential)
    /\ ~Leaks(req.json, credential)

\* C9: a request of get_accounts is a POST /accounts that carries the access
\* token as "Bearer <token>" in x-sequence-access-token and nowhere else, and
\* has no x-sequence-signature; a request of trigger_rule is a POST
\* /remote-api/rules/{rule_id}/trigger that carries the api_secret as
\* "Bearer <secret>" in x-sequence-signature and nowhere else, has no
\* x-sequence-access-token and carries the client's access token nowhere.
C9_CredentialUnderItsOwnHeader ==
    \A t \in Calling : \A i \in 1..Len(task[t].reqs) :
        LET req == task[t].reqs[i]
        IN  /\ req.method = "POST"
            /\ ~({"x-sequence-access-token", "x-sequence-signature"}
                    \subseteq DOMAIN req.headers)
            /\ IF IsTriggerCall(t)
               THEN /\ req.path = <<"/remote-api/rules/">> \o GivenRuleId(t).s
                                  \o <<"/trigger">>
                    /\ OnlyIn(req, "x-sequence-signature", GivenSecret(t))
                    /\ "x-sequence-access-token" \notin DOMAIN req.headers
                    /\ \A h \in DOMAIN req.headers : ~Leaks(req.headers[h], ClientToken(t))
               ELSE /\ req.path = <<"/accounts">>
                    /\ OnlyIn(req, "x-sequence-access-token", ClientToken(t))
                    /\ "x-sequence-signature" \notin DOMAIN req.headers

\* trigger_rule has sent its request on a client that holds an access token
C9_Witness ==
    \E t \in Calling :
        /\ task[t].entry = "trigger_rule"
        /\ task[t].in.access_token = [t |-> "str", s |-> <<"tok_A">>]
        /\ Len(task[t].reqs) = 1
        /\ task[t].reqs[1].headers["x-sequence-signature"].s = <<"Bearer ", "sec_S">>

(* C10 *)

\* C10: no log record of a call_tool and no envelope it returns holds the value
\* of the access token, or of the api_secret of a trigger_rule call.
C10_CredentialsNeverLoggedOrEchoed ==
    \A t \in Calling :
        task[t].entry = "call_tool" =>
            LET secret == IF IsTriggerCall(t)
                          THEN DictGet(task[t].in.arguments, "api_secret", None)
                          ELSE None
                token == task[t].in.token
            IN  /\ \A i \in 1..Len(task[t].logs) :
                       /\ ~Leaks([t |-> "str", s |-> task[t].logs[i].msg], secret)
                       /\ ~Leaks([t |-> "str", s |-> task[t].logs[i].msg], token)
                /\ (task[t].pc = "done" /\ ~task[t].out.raised) =>
                       /\ ~Leaks(task[t].out.value[1].text, secret)
                       /\ ~Leaks(task[t].out.value[1].text, token)

(* C11 *)

\* the calls call_tool("get_accounts", ...) made while SEQUENCE_ACCESS_TOKEN is
\* not set (or is empty), over or not
NoTokenInvocations ==
    {t \in Calling : /\ task[t].entry = "call_tool"
                     /\ task[t].in.name = [t |-> "str", s |-> <<"get_accounts">>]
                     /\ task[t].in.token \in {[t |-> "none"], [t |-> "str", s |-> <<>>]}}

\* C11: call_tool("get_accounts") without SEQUENCE_ACCESS_TOKEN returns
\* {error: true, message} whose message names the variable that is not set, with
\* no code and no status_code; it constructs no SequenceClient, opens no
\* connection, calls no Client operation and sends no request.
C11_NoTokenEnvelopeWithoutClient ==
    \A t \in NoTokenInvocations :
        /\ task[t].pc = "done"
        /\ own[t] = [t |-> "none"]
        /\ task[t].inner = NoCall
        /\ task[t].reqs = <<>>
        /\ task[t].response = NoResponse
        /\ ~task[t].out.raised
        /\ LET text == task[t].out.value[1].text
           IN  /\ text.t = "json"
               /\ DOMAIN text.doc.d = {"error", "message"}
               /\ text.doc.d["error"] = [t |-> "bool", b |-> TRUE]
               /\ text.doc.d["message"].s =
                      <<"SEQUENCE_ACCESS_TOKEN", " environment variable is not set">>

\* call_tool("get_accounts") has returned its envelope with the variable unset
C11_Witness ==
    \E t \in NoTokenInvocations :
        /\ task[t].pc = "done"
        /\ task[t].in.token = [t |-> "none"]
        /\ task[t].out.value[1].text.doc.d["error"].b
        /\ \A c \in ConnIds : conns[c] = "unused"

(* C12 *)

\* the calls of call_tool with a name that is neither tool, over or not
UnknownInvocations ==
    {t \in Calling : /\ task[t].entry = "call_tool"
                     /\ task[t].in.name \notin {[t |-> "str", s |-> <<"get_accounts">>],
                                                [t |-> "str", s |-> <<"trigger_rule">>]}}

\* C12: call_tool with a name other than get_accounts and trigger_rule returns
\* the plain text "Unknown tool: <name>", which is no JSON envelope and has no
\* error flag; it constructs no client, calls no Client operation and sends no
\* request, whatever the arguments and the token.
C12_UnknownToolPlainNotice ==
    \A t \in UnknownInvocations :
        /\ task[t].pc = "done"
        /\ own[t] = [t |-> "none"]
        /\ task[t].inner = NoCall
        /\ task[t].reqs = <<>>
        /\ task[t].response = NoResponse
        /\ ~task[t].out.raised
        /\ Len(task[t].out.value) = 1
        /\ task[t].out.value[1].type = "text"
        /\ task[t].out.value[1].text =
               [t |-> "str", s |-> <<"Unknown tool: ">> \o task[t].in.name.s]

\* call_tool("unknown_tool", ...) has returned its notice, given arguments that
\* would have let trigger_rule run
C12_Witness ==
    \E t \in UnknownInvocations :
        /\ task[t].pc = "done"
        /\ task[t].in.name.s = <<"unknown_tool">>
        /\ {"rule_id", "api_secret"} \subseteq DOMAIN task[t].in.arguments.d
        /\ task[t].out.value[1].text.s = <<"Unknown tool: ", "unknown_tool">>

(* C13 *)

\* the finished calls of call_tool whose Client call raised a SequenceError
DomainFailures ==
    {t \in Invoked : /\ task[t].inner # NoCall
                     /\ task[t].inner.raised
                     /\ task[t].inner.exc.type = "SequenceError"}

\* C13: when get_accounts or trigger_rule, called by call_tool, raises a
\* SequenceError, call_tool returns the envelope {error: true, code, message,
\* status_code} whose code, message and status_code are the error's, and nothing
\* else.
C13_SequenceErrorRendered ==
    \A t \in DomainFailures :
        LET e == task[t].inner.exc
            text == task[t].out.value[1].text
        IN  /\ ~task[t].out.raised
            /\ text.t = "json"
            /\ DOMAIN text.doc.d = {"error", "code", "message", "status_code"}
            /\ text.doc.d["error"] = [t |-> "bool", b |-> TRUE]
            /\ text.doc.d["code"] = e.code
            /\ text.doc.d["message"] = e.message
            /\ text.doc.d["status_code"] = e.status_code

\* call_tool("trigger_rule") has rendered the error of a 401 {code, message} response
C13_Witness ==
    \E t \in DomainFailures :
        /\ IsTriggerCall(t)
        /\ task[t].response.status_code = 401
        /\ task[t].inner.exc.code.s = <<"INVALID_ACCESS_TOKEN">>
        /\ task[t].out.value[1].text.doc.d["code"].s = <<"INVALID_ACCESS_TOKEN">>
        /\ task[t].out.value[1].text.doc.d["status_code"].n = 401

(* C14 *)

\* the finished calls of call_tool whose handler raised something that is not a
\* SequenceError
UnexpectedFailures ==
    {t \in Invoked : /\ task[t].inner # NoCall
                     /\ task[t].inner.raised
                     /\ task[t].inner.exc.type # "SequenceError"}

\* C14: when the handler of call_tool raises an exception that is not a
\* SequenceError (a transport error, a body that does not parse or validate),
\* call_tool returns the envelope {error: true, message} whose message is the
\* text of the exception; the envelope has no code and no status_code field.
C14_UnexpectedErrorMessageOnly ==
    \A t \in UnexpectedFailures :
        LET e == task[t].inner.exc
            text == task[t].out.value[1].text
        IN  /\ ~task[t].out.raised
            /\ text.t = "json"
            /\ DOMAIN text.doc.d = {"error", "message"}
            /\ text.doc.d["error"] = [t |-> "bool", b |-> TRUE]
            /\ text.doc.d["message"] = [t |-> "str", s |-> e.str]

\* call_tool("get_accounts") has rendered the failure to reach the host
C14_Witness ==
    \E t \in UnexpectedFailures :
        /\ ~IsTriggerCall(t)
        /\ task[t].response = TransportFailure
        /\ task[t].inner.exc.type = "ConnectError"
        /\ task[t].out.value[1].text.doc.d["message"].s = <<"All connection attempts failed">>

(* C15 *)

\* the body of the response is one that the call's response model accepts
ValidBody(t) ==
    /\ task[t].response.json # NotJson
    /\ IF IsTriggerCall(t) THEN ValidTriggerRuleResponse(task[t].response.json)
       ELSE ValidAccountsResponse(task[t].response.json)

\* C15: a response to get_accounts or trigger_rule makes the call raise the
\* SequenceError of _handle_error_response if and only if its status is not a
\* 2xx one: with any 2xx status, 200 or not, the body is parsed and a valid body
\* is returned as the result; with any other status the call raises the
\* SequenceError.
C15_ErrorIffNon2xx ==
    \A t \in Answered :
        LET r == task[t].response
            o == task[t].inner
        IN  /\ (o.raised /\ o.exc.type = "SequenceError") <=> ~Is2xx(r.status_code)
            /\ (Is2xx(r.status_code) /\ ValidBody(t)) => ~o.raised

(* C16 *)

\* C16: when the body of a 2xx response is not one the response model accepts
\* (not JSON, a field missing, an account type outside the three kinds), the
\* call raises a SequenceError that carries the status of the response, as
\* _handle_error_response makes for an error status, and no other exception.
C16_ParseFailureIsSequenceError ==
    \A t \in Answered :
        (Is2xx(task[t].response.status_code) /\ ~ValidBody(t)) =>
            /\ task[t].inner.raised
            /\ task[t].inner.exc.type = "SequenceError"
            /\ task[t].inner.exc.status_code =
                   [t |-> "num", n |-> task[t].response.status_code]

(* C17 *)

\* task t begins a call of close or __aexit__ in this step
BeginsClose(t) ==
    /\ task[t].pc = "idle"
    /\ task'[t].pc # "idle"
    /\ task'[t].entry \in {"close", "__aexit__"}

\* a call of close or __aexit__ of task t is over with this step
EndsClose(t) ==
    /\ task[t].pc # "done"
    /\ task'[t].pc = "done"
    /\ task'[t].entry \in {"close", "__aexit__"}

\* C17: close and __aexit__ raise nothing and leave self._client None, whatever
\* was called before; on a client that holds no connection (never opened, or
\* closed by the call before) they return at once and change nothing.
C17_CloseIdempotent ==
    [][\A t \in Tasks :
          /\ EndsClose(t) => (~task'[t].out.raised /\ shared'._client = None)
          /\ (BeginsClose(t) /\ shared._client = None) =>
                 (EndsClose(t) /\ shared' = shared /\ conns' = conns)]_vars

\* close has returned on a client that held no connection
C17_Witness ==
    \E t \in Tasks :
        /\ task[t].pc = "done"
        /\ task[t].entry = "close"
        /\ task[t].in.before = [t |-> "none"]
        /\ ~task[t].out.raised
        /\ shared._client = [t |-> "none"]

(* C18 *)

\* task t is inside an `async with` scope of call_tool's handler, suspended in
\* the Client call
InScope(t) == task[t].pc = "post" /\ task[t].entry = "call_tool"

\* task t leaves an `async with` scope with this step: the handler's scope when
\* call_tool returns, the scope on the shared client when __aexit__ returns
LeavesScope(t) ==
    /\ task[t].pc \in {"post", "aclose"}
    /\ task[t].entry \in {"call_tool", "__aexit__"}
    /\ task'[t].pc = "done"

\* C18: inside the `async with` of a handler the client holds an open
\* connection; when the scope is left, by the return of the Client call or by
\* any exception it raised, the connection the client held is closed and the
\* client holds none, and call_tool returns its envelope only then.
C18_ScopeReleasesConnection ==
    [][\A t \in Tasks :
          /\ InScope(t) =>
                 /\ own[t]._client = [t |-> "conn", id |-> task[t].conn]
                 /\ conns[task[t].conn] = "open"
          /\ LeavesScope(t) =>
                 /\ conns'[task[t].conn] \in {"closed", "unused"}
                 /\ IF task[t].entry = "call_tool"
                    THEN own'[t] = [t |-> "none"] /\ ~task'[t].out.raised
                    ELSE shared'._client = [t |-> "none"]]_vars

\* call_tool has returned the envelope of an exception raised inside the scope,
\* and no connection is open
C18_Witness ==
    \E t \in Invoked :
        /\ task[t].inner # NoCall
        /\ task[t].inner.raised
        /\ Len(task[t].reqs) = 1
        /\ own[t] = [t |-> "none"]
        /\ \A c \in ConnIds : conns[c] # "open"

(* C19 *)

\* the call of task t passes the checks made before anything is sent: the access
\* token for get_accounts; for call_tool a known name, and the token, or the
\* rule_id and api_secret of the arguments
PassesValidation(t) ==
    CASE task[t].entry = "get_accounts" -> Truthy(task[t].in.access_token)
      [] task[t].entry = "trigger_rule" -> TRUE
      [] task[t].entry = "call_tool" ->
            IF task[t].in.name = [t |-> "str", s |-> <<"get_accounts">>]
            THEN Truthy(task[t].in.token)
            ELSE /\ IsTriggerCall(t)
                 /\ Supplied(task[t].in.arguments, "rule_id")
                 /\ Supplied(task[t].in.arguments, "api_secret")

\* C19: a call of get_accounts, of trigger_rule or of call_tool sends exactly one
\* request when it passes its checks and none when it does not, and it has sent
\* no second one when it is over, whatever the response was: an error status, a
\* body that does not parse, a transport failure.
C19_AtMostOneRequest ==
    \A t \in Calling :
        /\ Len(task[t].reqs) <= 1
        /\ PassesValidation(t) => Len(task[t].reqs) = 1
        /\ ~PassesValidation(t) => (Len(task[t].reqs) = 0 /\ task[t].pc = "done")

\* call_tool("trigger_rule") is over after a 500 response, with one request sent
C19_Witness ==
    \E t \in Invoked :
        /\ IsTriggerCall(t)
        /\ task[t].response.kind = "response"
        /\ task[t].response.status_code = 500
        /\ task[t].inner.raised
        /\ Len(task[t].reqs) = 1

(* C20 *)

\* the calls of get_accounts, direct or through call_tool, that returned accounts
AccountsReturned == {t \in ClientCalls : ~IsTriggerCall(t) /\ ~task[t].inner.raised}

\* a present amount has no error with it, an absent amount has an error that is
\* a non-empty string
BalanceInvariant(balance) ==
    IF balance.amount_in_dollars # [t |-> "none"]
    THEN balance.error = [t |-> "none"]
    ELSE balance.error.t = "str" /\ balance.error.s # <<>>

\* C20: every account that get_accounts returns has a balance with either an
\* amount and no error, or no amount and a non-empty error; a response holding
\* an account whose balance has neither is not accepted.
C20_BalanceInvariant ==
    \A t \in AccountsReturned :
        \A i \in 1..Len(task[t].inner.value) :
            BalanceInvariant(task[t].inner.value[i].balance)

(* C21 *)

\* the accounts and the top-level errors in the body of the response to task t
BodyAccounts(t) == DictGet(task[t].response.json.d["data"], "accounts", [t |-> "list", l |-> <<>>]).l
BodyErrors(t) == DictGet(task[t].response.json.d["data"], "errors", [t |-> "list", l |-> <<>>]).l

\* the account a holds the fields of the account object b of the body
SameAccount(a, b) ==
    /\ DOMAIN a = {"id", "name", "balance", "type"}
    /\ a.id = b.d["id"]
    /\ a.name = b.d["name"]
    /\ a.type = b.d["type"]
    /\ a.balance.amount_in_dollars = b.d["balance"].d["amountInDollars"]
    /\ a.balance.error = DictGet(b.d["balance"], "error", [t |-> "none"])

\* the value v that get_accounts returned holds the top-level error e
HoldsError(v, e) == \E i \in 1..Len(v) : v[i] = e

\* C21 as stated: what get_accounts returns for a valid response holds the
\* accounts of the response in their order and holds every top-level error of
\* the response: none of them is discarded.
C21_ResultHoldsAccountsAndErrors ==
    \A t \in AccountsReturned :
        LET v == task[t].inner.value
        IN  /\ Len(v) >= Len(BodyAccounts(t))
            /\ \A i \in 1..Len(BodyAccounts(t)) : SameAccount(v[i], BodyAccounts(t)[i])
            /\ \A j \in 1..Len(BodyErrors(t)) : HoldsError(v, BodyErrors(t)[j])

\* C21 as amended: what get_accounts returns for a valid response is the list
\* of the accounts of the response, in their order and with their fields, and
\* nothing else: the top-level errors of the response are validated and are not
\* part of the result.
C21_ResultIsAccountsOnly ==
    \A t \in AccountsReturned :
        LET v == task[t].inner.value
        IN  /\ Len(v) = Len(BodyAccounts(t))
            /\ \A i \in 1..Len(v) : SameAccount(v[i], BodyAccounts(t)[i])
            /\ \A j \in 1..Len(BodyErrors(t)) : ~HoldsError(v, BodyErrors(t)[j])

\* get_accounts has returned the two accounts of a response that also holds a
\* top-level error
C21_Witness ==
    \E t \in AccountsReturned :
        /\ task[t].entry = "get_accounts"
        /\ Len(BodyErrors(t)) = 1
        /\ Len(task[t].inner.value) = 2
        /\ task[t].inner.value[1].id.s = <<"5579244">>
        /\ task[t].inner.value[2].id.s = <<"123">>

(* C22 *)

\* task t begins a call of get_accounts or trigger_rule on the shared client
\* in this step
BeginsOperation(t) ==
    /\ task[t].pc = "idle"
    /\ task'[t].pc # "idle"
    /\ task'[t].entry \in {"get_accounts", "trigger_rule"}

\* the connections that this step creates
Created == {c \in ConnIds : conns[c] = "unused" /\ conns'[c] # "unused"}

\* C22: a call of get_accounts or trigger_rule on a client that holds a
\* connection uses that one and creates none; on a client that holds none, a
\* call that gets to its request creates one connection, which the client then
\* holds, so that the calls that follow, while the first is still suspended or
\* after it, use the same one.
C22_SingleLazyConnection ==
    [][\A t \in Tasks :
          BeginsOperation(t) =>
              /\ Cardinality(Created) <= 1
              /\ shared._client # [t |-> "none"] =>
                     /\ Created = {}
                     /\ shared'._client = shared._client
                     /\ task'[t].pc = "post" => task'[t].conn = shared._client.id
              /\ (shared._client = [t |-> "none"] /\ task'[t].pc = "post") =>
                     /\ Created = {task'[t].conn}
                     /\ shared'._client = [t |-> "conn", id |-> task'[t].conn]]_vars

\* two calls on the shared client are suspended at once, on the one connection
\* that exists
C22_Witness ==
    /\ \A t \in Tasks : task[t].pc = "post" /\ task[t].entry \in {"get_accounts", "trigger_rule"}
    /\ task["t1"].conn = task["t2"].conn
    /\ shared._client = [t |-> "conn", id |-> task["t1"].conn]
    /\ Cardinality({c \in ConnIds : conns[c] # "unused"}) = 1

(* C23 *)

\* the calls of call_tool that are in flight: suspended in their request or in
\* the close of their connection
InFlight == {t \in Tasks : task[t].pc \in {"post", "aclose"} /\ task[t].entry = "call_tool"}

\* what call_tool returns for the name and the response of task t alone
OwnEnvelope(t) ==
    CallToolResult(task[t].in.name,
                   IF IsTriggerCall(t) THEN TriggerRuleResult(task[t].response)
                   ELSE GetAccountsResult(task[t].response)).out

\* C23: every call of call_tool that is in flight has a client and a connection
\* of its own, which no other task and not the shared client holds; while it
\* waits for its response its connection stays open, whatever the other calls
\* close; and what it returns is what its own name, arguments, token and
\* response give.
C23_InvocationsIsolated ==
    \A t \in Tasks :
        /\ t \in InFlight =>
               /\ own[t]._client = [t |-> "conn", id |-> task[t].conn]
               /\ shared._client # own[t]._client
               /\ \A u \in Tasks \ {t} :
                      task[u].pc \in {"post", "aclose"} => task[u].conn # task[t].conn
               /\ task[t].pc = "post" => conns[task[t].conn] = "open"
        /\ (t \in Invoked /\ task[t].inner # NoCall) =>
               /\ task[t].response # NoResponse
               /\ Len(task[t].reqs) = 1
               /\ task[t].out = OwnEnvelope(t)

\* one call of call_tool has closed its connection and returned while the other
\* still waits for its response on its own open connection
C23_Witness ==
    \E t \in Tasks : \E u \in Tasks \ {t} :
        /\ t \in Invoked
        /\ Len(task[t].reqs) = 1
        /\ u \in InFlight
        /\ task[u].pc = "post"
        /\ conns[task[u].conn] = "open"

(* C24 *)

\* some client still holds the connection c
Held(c) ==
    \/ shared._client = [t |-> "conn", id |-> c]
    \/ \E t \in Tasks : own[t] # [t |-> "none"] /\ own[t]._client = [t |-> "conn", id |-> c]

\* C24: no connection is leaked: a connection that is open is held by its
\* client, so that close or __aexit__ can still close it; the client never
\* replaces or drops the reference to an open connection.
C24_NoOpenConnectionDropped ==
    \A c \in ConnIds : conns[c] = "open" => Held(c)

(* C25 *)

\* the call of task t was handed a connection that was closed or being closed:
\* its post raised httpx's error for a closed client, and nothing was sent
GotClosedConnection(t) ==
    /\ task[t].pc = "done"
    /\ task[t].entry \in {"get_accounts", "trigger_rule", "call_tool"}
    /\ task[t].inner # NoCall
    /\ task[t].inner.raised
    /\ task[t].inner.exc.type = "RuntimeError"

\* C25: with close or __aexit__ running concurrently with get_accounts or
\* trigger_rule on the same client, no call obtains from _get_client, or posts
\* on, a connection that is closed or in the middle of being closed.
C25_NoRequestOnClosedConnection ==
    \A t \in Tasks : ~GotClosedConnection(t)

=============================================================================
